---------------------------- MODULE Spec2Model ----------------------------
(***************************************************************************)
(* Model of the browser-extension analyzer backend (src/backend/main.py). *)
(*                                                                         *)
(* Four specifications share the variables of this module:                 *)
(*   Spec        the analysis workflow ExtensionAnalyzer.analyze_extension *)
(*               run by several requests against the shared sqlite table   *)
(*               "extensions" and the shared files /tmp/<extension_id>.zip *)
(*   SpecDecode  the pure function _process_crx_headers on bounded buffers *)
(*   SpecScore   the pure function _calculate_permission_score on bounded  *)
(*               permission lists                                          *)
(*   SpecManifest  _analyze_crx on archives holding bounded manifests      *)
(***************************************************************************)
EXTENDS Integers, Sequences, FiniteSets, TLC

VARIABLES
    \* ---- Spec: shared state
    extensions,   \* rows of the sqlite table "extensions"
    tmp_files,    \* /tmp/<extension_id>.zip : extension_id -> file content or NoFile
    clock,        \* datetime.utcnow(), as a logical clock
    \* ---- Spec: one analyze_extension call per request
    pc,           \* position of the call in analyze_extension
    req,          \* [extension_id, store_name] of the ExtensionAnalyzer
    store_details,
    zip_data,     \* zip_data of _download_crx, between open() and write()
    zip_fd,       \* the file object f of _download_crx: closed, open or unlinked
    zip_info,     \* what _download_crx returned: [file_size, file_hash]
    zip_seen,     \* the bytes zipfile.ZipFile read from zip_path in _analyze_crx
    analysis_results,
    result,       \* the result dict built at lines 158-168
    ret,          \* what analyze_extension returned
    work,         \* history: the external work the call has performed
    looked,       \* history: the rows and the last put of the key at the call's lookup
    puts,         \* history: every (key, result) _cache_results has committed
    last_put,     \* history: key -> the result of the last committed put
    \* ---- SpecDecode
    dpc, crx_data, decoded,
    \* ---- SpecScore
    spc, permsP, permsQ, scoreP, scoreQ,
    \* ---- SpecManifest
    mpc, manifest_in, manifest_out

vars == << extensions, tmp_files, clock, pc, req, store_details, zip_data,
           zip_fd, zip_info, zip_seen, analysis_results, result, ret, work,
           looked, puts, last_put, dpc, crx_data, decoded, spc, permsP, permsQ,
           scoreP, scoreQ, mpc, manifest_in, manifest_out >>

analysisVars == << extensions, tmp_files, clock, pc, req, store_details,
                   zip_data, zip_fd, zip_info, zip_seen, analysis_results,
                   result, ret, work, looked, puts, last_put >>
decodeVars == << dpc, crx_data, decoded >>
scoreVars == << spc, permsP, permsQ, scoreP, scoreQ >>
manifestVars == << mpc, manifest_in, manifest_out >>

\* Python's None.
None == << >>

(***************************************************************************)
(* Bounds of the model.                                                    *)
(***************************************************************************)
\* number of analyze_extension calls (requests) in one behaviour
NumCalls == 2
\* longest CRX3 header_length tried byte by byte (256 is tried besides)
MaxHeaderLen == 2
\* longest permission list enumerated exhaustively
MaxPerms == 3

(***************************************************************************)
(* Byte strings: sequences of 0..255, with Python's slicing.               *)
(***************************************************************************)
Min(a, b) == IF a < b THEN a ELSE b

\* s[a:b] for 0 <= a <= b: clamped to the length, never an error
Slice(s, a, b) ==
    LET lo == Min(a, Len(s))
        hi == Min(b, Len(s))
    IN  IF hi <= lo THEN << >> ELSE SubSeq(s, lo + 1, hi)

\* s[a:]
SliceFrom(s, a) == Slice(s, a, Len(s))

\* bytes.startswith
StartsWith(s, prefix) == Slice(s, 0, Len(prefix)) = prefix

\* int.from_bytes(b, byteorder='little'); the empty string is 0
RECURSIVE IntFromBytesLittle(_)
IntFromBytesLittle(b) ==
    IF b = << >> THEN 0 ELSE Head(b) + 256 * IntFromBytesLittle(Tail(b))

\* b'Cr24'
Cr24 == << 67, 114, 50, 52 >>

(***************************************************************************)
(* Exceptions and outcomes of a call that may raise.                       *)
(***************************************************************************)
HTTPException(status_code, detail) ==
    [type |-> "HTTPException", status_code |-> status_code, detail |-> detail]
OtherException(type) == [type |-> type, status_code |-> 0, detail |-> type]

Returned(v) == [raised |-> FALSE, value |-> v, exc |-> None]
Raised(e) == [raised |-> TRUE, value |-> None, exc |-> e]

(***************************************************************************)
(* ExtensionAnalyzer._process_crx_headers (lines 254-269).                 *)
(* Every operation of the try block is total on byte strings (slices       *)
(* clamp, int.from_bytes accepts the empty string), so the except branch   *)
(* at lines 267-269 is never entered.                                      *)
(***************************************************************************)
\* variant: zip_start leaves out the 32 bytes after the header
process_crx_headers_no_sha(data) ==
    IF StartsWith(data, Cr24)
    THEN LET header_length == IntFromBytesLittle(Slice(data, 8, 12))
             zip_start == 12 + header_length
         IN  Returned(SliceFrom(data, zip_start))
    ELSE Returned(SliceFrom(data, 16))

process_crx_headers(data) ==
    IF StartsWith(data, Cr24)
    THEN LET header_length == IntFromBytesLittle(Slice(data, 8, 12))
             zip_start == 12 + header_length + 32
         IN  Returned(SliceFrom(data, zip_start))
    ELSE Returned(SliceFrom(data, 16))

(***************************************************************************)
(* ExtensionAnalyzer._calculate_permission_score (lines 331-343).          *)
(* The score is a float built from additions of 0.5, which are exact; the  *)
(* model counts it in halves: a value n stands for the float n * 0.5.      *)
(***************************************************************************)
risky_permissions ==
    << "activeTab", "background", "bookmarks", "browsingData", "clipboardRead",
       "clipboardWrite", "contentSettings", "cookies", "debugger", "downloads",
       "geolocation", "history", "management", "nativeMessaging", "notifications",
       "privacy", "proxy", "storage", "tabs", "unlimitedStorage", "webNavigation",
       "webRequest", "webRequestBlocking" >>

InList(x, list) == \E i \in 1..Len(list) : list[i] = x

\* variant: the return statement inside the for loop
calculate_permission_score_first(permissions) ==
    IF permissions = << >> THEN 0
    ELSE IF InList(Head(permissions), risky_permissions) THEN 1 ELSE 0

RECURSIVE calculate_permission_score(_)
calculate_permission_score(permissions) ==
    IF permissions = << >> THEN 0
    ELSE (IF InList(Head(permissions), risky_permissions) THEN 1 ELSE 0)
         + calculate_permission_score(Tail(permissions))

(***************************************************************************)
(* CRX containers as the download collaborator delivers them.              *)
(***************************************************************************)
\* n as 4 little-endian bytes
Le32(n) ==
    << n % 256, (n \div 256) % 256, (n \div 65536) % 256, (n \div 16777216) % 256 >>

Fill(n, byte) == [i \in 1..n |-> byte]

\* magic, version, header length, header, 32 bytes, archive (layout of lines 258-263)
Crx3Container(h, zip) == Cr24 \o Le32(3) \o Le32(h) \o Fill(h, 1) \o Fill(32, 2) \o zip

\* a container without the magic: 16 bytes, archive (layout of lines 264-266)
NoMagicContainer(zip) == Fill(16, 0) \o zip

Prefixes(s) == { Slice(s, 0, n) : n \in 0..Len(s) }

(***************************************************************************)
(* Archives and manifests.  zipfile, the codecs and json are libraries:    *)
(* an archive is five bytes, the local-file signature and the index of its *)
(* content in Archives; every other byte string is a BadZipFile.  A        *)
(* manifest entry is its encoding, whether its text is JSON, and the JSON  *)
(* value.                                                                  *)
(***************************************************************************)
PK == << 80, 75, 3, 4 >>

ManifestFile(encoding, well_formed, is_object, json) ==
    [encoding |-> encoding, well_formed |-> well_formed, is_object |-> is_object,
     json |-> json]

Archives ==
    << \* 1: UTF-8 manifest, one risky permission
       [namelist |-> << "manifest.json", "background.js" >>,
        manifest |-> ManifestFile("utf-8", TRUE, TRUE,
                        [name |-> "one", permissions |-> << "storage" >>])],
       \* 2: UTF-16 manifest, three risky permissions and an optional one
       [namelist |-> << "background.js", "manifest.json" >>,
        manifest |-> ManifestFile("utf-16", TRUE, TRUE,
                        [name |-> "three",
                         permissions |-> << "storage", "tabs", "webRequest" >>,
                         optional_permissions |-> << "history" >>])],
       \* 3: no manifest.json
       [namelist |-> << "background.js" >>,
        manifest |-> None],
       \* 4: manifest.json is not JSON
       [namelist |-> << "manifest.json" >>,
        manifest |-> ManifestFile("utf-8", FALSE, FALSE, None)],
       \* 5: manifest.json is neither UTF-8 nor UTF-16
       [namelist |-> << "manifest.json" >>,
        manifest |-> ManifestFile("binary", FALSE, FALSE, None)],
       \* 6: manifest without a permissions key
       [namelist |-> << "manifest.json" >>,
        manifest |-> ManifestFile("utf-8", TRUE, TRUE, [name |-> "none"])],
       \* 7: manifest.json is a JSON array, not an object
       [namelist |-> << "manifest.json" >>,
        manifest |-> ManifestFile("utf-8", TRUE, FALSE, << "storage" >>)] >>

ZipBytes(k) == PK \o << k >>

\* zipfile.ZipFile(zip_path, 'r') on the bytes of the file (line 282)
ZipFile(content) ==
    IF Len(content) = 5 /\ Slice(content, 0, 4) = PK /\ content[5] \in 1..Len(Archives)
    THEN Returned(Archives[content[5]])
    ELSE Raised(OtherException("BadZipFile"))

\* manifest_content.decode('utf-8'), falling back to decode('utf-16') (lines 295-300)
DecodeManifest(file) ==
    IF file.encoding \in {"utf-8", "utf-16"}
    THEN Returned(file)
    ELSE Raised(OtherException("UnicodeDecodeError"))

\* json.loads(manifest_content) (line 303)
JsonLoadsManifest(file) ==
    IF file.well_formed
    THEN Returned(file.json)
    ELSE Raised(OtherException("JSONDecodeError"))

\* dict.get(key, default)
DictGet(d, key, default) == IF key \in DOMAIN d THEN d[key] ELSE default

(***************************************************************************)
(* ExtensionAnalyzer._analyze_crx (lines 271-329).                         *)
(***************************************************************************)
\* lines 287-315: the manifest branch inside the with block
read_manifest(archive) ==
    IF InList("manifest.json", archive.namelist)
    THEN LET text == DecodeManifest(archive.manifest)
             loaded == IF text.raised THEN text ELSE JsonLoadsManifest(text.value)
         IN  IF loaded.raised
             THEN IF loaded.exc.type = "JSONDecodeError"
                  THEN Raised(HTTPException(500, "Invalid manifest.json format"))
                  ELSE Raised(HTTPException(500, "Invalid manifest.json encoding"))
             ELSE IF ~archive.manifest.is_object
                  \* manifest_json.get on a value that is not a dict (line 306)
                  THEN Raised(OtherException("AttributeError"))
                  ELSE Returned([manifest |-> loaded.value,
                                 permissions |-> DictGet(loaded.value, "permissions", << >>)])
    ELSE Raised(HTTPException(404, "manifest.json not found in extension"))

\* variant: the permissions that are stored and scored are permissions
\* followed by optional_permissions
analyze_archive_with_optional(zip_ref) ==
    LET m == read_manifest(zip_ref)
    IN  IF m.raised THEN m
        ELSE LET all == m.value.permissions
                          \o DictGet(m.value.manifest, "optional_permissions", << >>)
             IN  Returned([permissions |-> all,
                           permissions_score |-> calculate_permission_score(all),
                           third_party_dependencies |-> << >>,
                           manifest |-> m.value.manifest])

\* lines 284-320: the body of the outer try once the archive is open
analyze_archive(zip_ref) ==
    LET m == read_manifest(zip_ref)
    IN  IF m.raised THEN m
        ELSE Returned([permissions |-> m.value.permissions,
                       permissions_score |->
                           calculate_permission_score(m.value.permissions),
                       third_party_dependencies |-> << >>,
                       manifest |-> m.value.manifest])

\* lines 280-320: the body of the outer try; file is the state of zip_path
analyze_crx_try(file) ==
    IF ~file.exists THEN Raised(OtherException("FileNotFoundError"))
    ELSE LET zip_ref == ZipFile(file.content)
         IN  IF zip_ref.raised THEN zip_ref
             ELSE analyze_archive(zip_ref.value)

\* variant: the second handler returns the dict initialised at lines 273-278
analyze_crx_except_partial(out) ==
    IF ~out.raised THEN out
    ELSE IF out.exc.type = "BadZipFile"
         THEN Raised(HTTPException(500, "Invalid extension package"))
         ELSE Returned([permissions |-> << >>, permissions_score |-> 0,
                        third_party_dependencies |-> << >>, manifest |-> None])

\* lines 322-327: the handlers of the outer try.  HTTPException is an
\* Exception, so the HTTPExceptions raised inside the try are caught by the
\* second handler as well.
analyze_crx_except(out) ==
    IF ~out.raised THEN out
    ELSE IF out.exc.type = "BadZipFile"
         THEN Raised(HTTPException(500, "Invalid extension package"))
         ELSE Raised(HTTPException(500, "Extension analysis failed"))

analyze_crx(file) == analyze_crx_except(analyze_crx_try(file))

(***************************************************************************)
(* The cache: table "extensions", PRIMARY KEY (id, store_name)             *)
(* (lines 45-57), json.dumps / json.loads of the result (lines 85, 388).   *)
(***************************************************************************)
ResultKeys == << "extension_details", "analysis_results", "summary", "metadata" >>

\* json.dumps(result): the members of the object, in insertion order
json_dumps(d) == [i \in 1..Len(ResultKeys) |-> << ResultKeys[i], d[ResultKeys[i]] >>]

\* json.loads(blob): a dict of the members; of a repeated key the last one counts
json_loads(blob) ==
    LET keys == { blob[i][1] : i \in 1..Len(blob) }
        last(k) == CHOOSE i \in 1..Len(blob) :
                      /\ blob[i][1] = k
                      /\ \A j \in (i + 1)..Len(blob) : blob[j][1] # k
    IN  [k \in keys |-> blob[last(k)][2]]

\* variant: WHERE id = ? alone
select_rows_by_id(table, id, store_name) == { row \in table : row.id = id }

\* the rows SELECT ... WHERE id = ? AND store_name = ? matches (lines 78-81)
select_rows(table, id, store_name) ==
    { row \in table : row.id = id /\ row.store_name = store_name }

\* variants: PRIMARY KEY (id); INSERT OR IGNORE; an update that replaces only
\* the first two members of a stored blob
insert_or_replace_id_key(table, row) ==
    { r \in table : r.id # row.id } \cup {row}

insert_or_ignore(table, row) ==
    IF select_rows(table, row.id, row.store_name) # {} THEN table ELSE table \cup {row}

insert_mixing_blob(table, row) ==
    LET old == select_rows(table, row.id, row.store_name)
    IN  (table \ old) \cup
        { [row EXCEPT !.result_blob =
              IF old = {} THEN row.result_blob
              ELSE LET o == (CHOOSE r \in old : TRUE).result_blob
                   IN  SubSeq(row.result_blob, 1, 2) \o SubSeq(o, 3, Len(o))] }

\* INSERT OR REPLACE (lines 390-401): the rows that conflict with the new
\* row on the primary key are deleted, then the row is inserted
insert_or_replace(table, row) ==
    { r \in table : ~(r.id = row.id /\ r.store_name = row.store_name) } \cup {row}

(***************************************************************************)
(* The analysis workflow.  Each request is served by its own               *)
(* ExtensionAnalyzer; requests served by different worker processes of the *)
(* application share the sqlite file and /tmp and interleave between their *)
(* database transactions, file operations and network calls.  Within one   *)
(* event loop the coroutine never suspends, so the calls of one process    *)
(* run one after the other: those behaviours are among the interleavings.  *)
(***************************************************************************)
Calls == 1..NumCalls

ExtensionIds == { "ext" }
\* store_name values a request body may carry, and "" for a missing field
StoreNameInputs == { "chrome", "Edge", "firefox", "" }
\* str.lower
Lower(s) == IF s = "Edge" THEN "edge" ELSE s
StoreNames == { "chrome", "edge" }
Keys == [extension_id : ExtensionIds, store_name : StoreNames]

\* what the store page scraper, the CRX endpoint and the summarizer deliver
StoreDetails == { "details" }
CrxDownloads ==
    { Crx3Container(1, ZipBytes(1)), NoMagicContainer(ZipBytes(2)),
      Crx3Container(0, ZipBytes(3)), NoMagicContainer(ZipBytes(4)),
      Crx3Container(2, ZipBytes(5)),
      Slice(Crx3Container(1, ZipBytes(1)), 0, 20) }
Summaries == { << "AI summary" >> }

NoFile == [exists |-> FALSE, content |-> << >>]
File(content) == [exists |-> TRUE, content |-> content]

\* f.write on a file opened at offset 0
Overwrite(old, new) == new \o SliceFrom(old, Len(new))

\* hashlib.sha256(zip_data).hexdigest(), as an injective tag
Sha256(b) == << "sha256", b >>

\* the summary of the error dicts (lines 187, 200)
ErrorSummary(exc) ==
    IF exc.type = "HTTPException"
    THEN << "Error: ", ToString(exc.status_code), exc.detail >>
    ELSE << "Unexpected error: ", exc.type >>

InitAnalysis ==
    /\ extensions = {}
    /\ tmp_files = [id \in ExtensionIds |-> NoFile]
    /\ clock = 1
    /\ pc = [p \in Calls |-> "idle"]
    /\ req = [p \in Calls |-> None]
    /\ store_details = [p \in Calls |-> None]
    /\ zip_data = [p \in Calls |-> None]
    /\ zip_fd = [p \in Calls |-> "closed"]
    /\ zip_info = [p \in Calls |-> None]
    /\ zip_seen = [p \in Calls |-> None]
    /\ analysis_results = [p \in Calls |-> None]
    /\ result = [p \in Calls |-> None]
    /\ ret = [p \in Calls |-> None]
    /\ work = [p \in Calls |-> {}]
    /\ looked = [p \in Calls |-> None]
    /\ puts = {}
    /\ last_put = [k \in Keys |-> None]

\* the two pure-function specifications at rest
DecodeOff == dpc = "off" /\ crx_data = << >> /\ decoded = None
ScoreOff == spc = "off" /\ permsP = << >> /\ permsQ = << >> /\ scoreP = 0 /\ scoreQ = 0

ManifestOff == mpc = "off" /\ manifest_in = None /\ manifest_out = None

Init == InitAnalysis /\ DecodeOff /\ ScoreOff /\ ManifestOff

KeyOf(p) == [extension_id |-> req[p].extension_id, store_name |-> req[p].store_name]

\* the except clauses of analyze_extension (lines 182-207)
ErrorReturn(p, exc) ==
    /\ ret' = [ret EXCEPT ![p] =
                 [via |-> IF exc.type = "HTTPException" THEN "http_error"
                                                        ELSE "unexpected_error",
                  body |-> [extension_details |-> None,
                            analysis_results |-> None,
                            summary |-> ErrorSummary(exc),
                            metadata |-> [analyzed_at |-> clock,
                                          store |-> req[p].store_name,
                                          file_size |-> None,
                                          file_hash |-> None]]]]
    /\ clock' = clock + 1
    /\ pc' = [pc EXCEPT ![p] = "done"]

\* POST /analyze (lines 404-426)
Receive(p) ==
    /\ pc[p] = "idle"
    /\ \E extension_id \in ExtensionIds \cup {""}, store_name \in StoreNameInputs :
          IF extension_id = "" \/ store_name = "" \/ Lower(store_name) \notin StoreNames
          THEN /\ pc' = [pc EXCEPT ![p] = "rejected"]
               /\ UNCHANGED req
          ELSE /\ pc' = [pc EXCEPT ![p] = "lookup"]
               /\ req' = [req EXCEPT ![p] = [extension_id |-> extension_id,
                                             store_name |-> Lower(store_name)]]
    /\ UNCHANGED << extensions, tmp_files, clock, store_details, zip_data,
                    zip_fd, zip_info, zip_seen, analysis_results, result, ret,
                    work, puts, last_put, looked, decodeVars, scoreVars, manifestVars >>

\* variant: a lookup that never finds the row
get_cached_analysis_never(table, key) == {}

\* _get_cached_analysis (lines 75-86): the row fetchone() returns, if any
get_cached_analysis(table, key) ==
    { IF row.result_blob # << >> THEN json_loads(row.result_blob) ELSE None :
        row \in select_rows(table, key.extension_id, key.store_name) }

\* lines 140-142
Lookup(p) ==
    /\ pc[p] = "lookup"
    /\ looked' = [looked EXCEPT ![p] =
                    [rows |-> select_rows(extensions, req[p].extension_id,
                                          req[p].store_name),
                     put |-> last_put[KeyOf(p)]]]
    /\ LET found == get_cached_analysis(extensions, KeyOf(p))
       IN  \/ /\ \E cached \in found :
                    /\ cached # None
                    /\ ret' = [ret EXCEPT ![p] = [via |-> "cached", body |-> cached]]
              /\ pc' = [pc EXCEPT ![p] = "done"]
           \/ /\ \/ found = {}
                 \/ None \in found
              /\ pc' = [pc EXCEPT ![p] = "fetch"]
              /\ UNCHANGED ret
    /\ UNCHANGED << extensions, tmp_files, clock, req, store_details, zip_data,
                    zip_fd, zip_info, zip_seen, analysis_results, result, work,
                    puts, last_put, decodeVars, scoreVars, manifestVars >>

Did(p, what) == work' = [work EXCEPT ![p] = @ \cup {what}]

\* fetch_store_details (lines 88-103), called at line 145
FetchStoreDetails(p) ==
    /\ pc[p] = "fetch"
    /\ Did(p, "fetch")
    /\ \/ /\ \E d \in StoreDetails : store_details' = [store_details EXCEPT ![p] = d]
          /\ pc' = [pc EXCEPT ![p] = "download"]
          /\ UNCHANGED << ret, clock >>
       \/ /\ ErrorReturn(p, HTTPException(404, "Extension not found in store"))
          /\ UNCHANGED store_details
    /\ UNCHANGED << extensions, tmp_files, req, zip_data, zip_fd, zip_info,
                    zip_seen, analysis_results, result, puts, last_put, looked,
                    decodeVars, scoreVars, manifestVars >>

\* _download_crx up to open(zip_path, 'wb') (lines 229-240), called at line 148
DownloadCrx(p) ==
    /\ pc[p] = "download"
    /\ Did(p, "download")
    /\ \/ /\ ErrorReturn(p, HTTPException(500, "Failed to download CRX file"))
          /\ UNCHANGED << tmp_files, zip_data, zip_fd >>
       \/ \E content \in CrxDownloads :
             LET out == process_crx_headers(content)
             IN  IF out.raised
                 THEN /\ ErrorReturn(p, out.exc)
                      /\ UNCHANGED << tmp_files, zip_data, zip_fd >>
                 ELSE /\ zip_data' = [zip_data EXCEPT ![p] = out.value]
                      \* open(..., 'wb') creates the file or truncates it
                      /\ tmp_files' = [tmp_files EXCEPT ![req[p].extension_id] = File(<< >>)]
                      /\ zip_fd' = [zip_fd EXCEPT ![p] = "open"]
                      /\ pc' = [pc EXCEPT ![p] = "write"]
                      /\ UNCHANGED << ret, clock >>
    /\ UNCHANGED << extensions, req, store_details, zip_info, zip_seen,
                    analysis_results, result, puts, last_put, looked,
                    decodeVars, scoreVars, manifestVars >>

\* _download_crx from f.write to its return (lines 241-248)
WriteZip(p) ==
    /\ pc[p] = "write"
    /\ LET id == req[p].extension_id
       IN  tmp_files' =
             IF zip_fd[p] = "open"
             THEN [tmp_files EXCEPT ![id] = File(Overwrite(@.content, zip_data[p]))]
             ELSE tmp_files   \* the file was removed meanwhile: the write is lost
    /\ zip_fd' = [zip_fd EXCEPT ![p] = "closed"]
    /\ zip_info' = [zip_info EXCEPT ![p] = [file_size |-> Len(zip_data[p]),
                                            file_hash |-> Sha256(zip_data[p])]]
    /\ pc' = [pc EXCEPT ![p] = "analyze"]
    /\ UNCHANGED << extensions, clock, req, store_details, zip_data, zip_seen,
                    analysis_results, result, ret, work, puts, last_put, looked,
                    decodeVars, scoreVars, manifestVars >>

\* _analyze_crx (lines 271-329), called at line 149
AnalyzeCrx(p) ==
    /\ pc[p] = "analyze"
    /\ Did(p, "analyze")
    /\ LET file == tmp_files[req[p].extension_id]
           out == analyze_crx(file)
       IN  /\ zip_seen' = [zip_seen EXCEPT ![p] = file]
           /\ IF out.raised
              THEN /\ ErrorReturn(p, out.exc)
                   /\ UNCHANGED analysis_results
              ELSE /\ analysis_results' = [analysis_results EXCEPT ![p] = out.value]
                   /\ pc' = [pc EXCEPT ![p] = "summary"]
                   /\ UNCHANGED << ret, clock >>
    /\ UNCHANGED << extensions, tmp_files, req, store_details, zip_data, zip_fd,
                    zip_info, result, puts, last_put, looked, decodeVars,
                    scoreVars, manifestVars >>

\* _get_openai_summary (lines 345-384) and the result dict (lines 152-171)
GetSummary(p) ==
    /\ pc[p] = "summary"
    /\ Did(p, "summary")
    /\ \E ai_summary \in Summaries \cup { << "Failed to generate security summary." >> } :
          result' = [result EXCEPT ![p] =
                       [extension_details |-> store_details[p],
                        analysis_results |-> analysis_results[p],
                        summary |-> ai_summary,
                        metadata |-> [analyzed_at |-> clock,
                                      store |-> req[p].store_name,
                                      file_size |-> zip_info[p].file_size,
                                      file_hash |-> zip_info[p].file_hash]]]
    /\ clock' = clock + 1
    /\ pc' = [pc EXCEPT ![p] = "cache"]
    /\ UNCHANGED << extensions, tmp_files, req, store_details, zip_data, zip_fd,
                    zip_info, zip_seen, analysis_results, ret, puts, last_put,
                    looked, decodeVars, scoreVars, manifestVars >>

\* the row _cache_results writes (lines 388-400)
cache_row(id, store_name, res) ==
    [id |-> id, store_name |-> store_name, result_blob |-> json_dumps(res),
     last_updated |-> res.metadata.analyzed_at]

\* _cache_results (lines 386-402), called at line 174: one committed statement
CacheResults(p) ==
    /\ pc[p] = "cache"
    /\ Did(p, "put")
    /\ extensions' = insert_or_replace(extensions,
                        cache_row(req[p].extension_id, req[p].store_name, result[p]))
    /\ puts' = puts \cup { [key |-> KeyOf(p), result |-> result[p], by |-> p] }
    /\ last_put' = [last_put EXCEPT ![KeyOf(p)] = result[p]]
    /\ pc' = [pc EXCEPT ![p] = "cleanup"]
    /\ UNCHANGED << tmp_files, clock, req, store_details, zip_data, zip_fd,
                    zip_info, zip_seen, analysis_results, result, ret, looked,
                    decodeVars, scoreVars, manifestVars >>

\* os.path.exists(zip_path) (line 177); without the file, return result (line 180)
CleanupExists(p) ==
    /\ pc[p] = "cleanup"
    /\ IF tmp_files[req[p].extension_id].exists
       THEN /\ pc' = [pc EXCEPT ![p] = "remove"]
            /\ UNCHANGED ret
       ELSE /\ pc' = [pc EXCEPT ![p] = "done"]
            /\ ret' = [ret EXCEPT ![p] = [via |-> "computed", body |-> result[p]]]
    /\ UNCHANGED << extensions, tmp_files, clock, req, store_details, zip_data,
                    zip_fd, zip_info, zip_seen, analysis_results, result, work,
                    puts, last_put, looked, decodeVars, scoreVars, manifestVars >>

\* os.remove(zip_path) (line 178) and return result (line 180)
CleanupRemove(p) ==
    /\ pc[p] = "remove"
    /\ LET id == req[p].extension_id
       IN  IF tmp_files[id].exists
           THEN /\ tmp_files' = [tmp_files EXCEPT ![id] = NoFile]
                \* a file object another call holds open on it writes to no path
                /\ zip_fd' = [q \in Calls |->
                                IF zip_fd[q] = "open" /\ req[q].extension_id = id
                                THEN "unlinked" ELSE zip_fd[q]]
                /\ ret' = [ret EXCEPT ![p] = [via |-> "computed", body |-> result[p]]]
                /\ pc' = [pc EXCEPT ![p] = "done"]
                /\ UNCHANGED clock
           ELSE /\ ErrorReturn(p, OtherException("FileNotFoundError"))
                /\ UNCHANGED << tmp_files, zip_fd >>
    /\ UNCHANGED << extensions, req, store_details, zip_data, zip_info,
                    zip_seen, analysis_results, result, work, puts, last_put,
                    looked, decodeVars, scoreVars, manifestVars >>

Next ==
    \E p \in Calls :
        \/ Receive(p)
        \/ Lookup(p)
        \/ FetchStoreDetails(p)
        \/ DownloadCrx(p)
        \/ WriteZip(p)
        \/ AnalyzeCrx(p)
        \/ GetSummary(p)
        \/ CacheResults(p)
        \/ CleanupExists(p)
        \/ CleanupRemove(p)

Spec == Init /\ [][Next]_vars

(***************************************************************************)
(* SpecDecode: _process_crx_headers applied to every prefix of a container *)
(* with the magic, of one without it and of a bare archive.                *)
(***************************************************************************)
HeaderLengths == (0..MaxHeaderLen) \cup {256}

\* a response that is the archive itself, with no container around it
BareArchive == ZipBytes(1) \o Fill(16, 3)

DecodeInputs ==
    UNION ({ Prefixes(Crx3Container(h, ZipBytes(1))) : h \in HeaderLengths }
           \cup { Prefixes(NoMagicContainer(ZipBytes(1))),
                   Prefixes(BareArchive) })

InitDecode ==
    /\ InitAnalysis /\ ScoreOff /\ ManifestOff
    /\ dpc = "input" /\ crx_data \in DecodeInputs /\ decoded = None

ProcessCrxHeaders ==
    /\ dpc = "input"
    /\ decoded' = process_crx_headers(crx_data)
    /\ dpc' = "decoded"
    /\ UNCHANGED << crx_data, analysisVars, scoreVars, manifestVars >>

SpecDecode == InitDecode /\ [][ProcessCrxHeaders]_vars

(***************************************************************************)
(* SpecScore: _calculate_permission_score applied to two permission lists. *)
(***************************************************************************)
\* the "/5.0" the frontend prints after the score, in halves
ScoreCeilingHalves == 10

PermissionNames == { "storage", "tabs", "webRequest", "fooBar" }

ScoreInputs ==
    UNION { [1..n -> PermissionNames] : n \in 0..MaxPerms }
    \cup { risky_permissions, Fill(ScoreCeilingHalves + 1, "tabs") }

InitScore ==
    /\ InitAnalysis /\ DecodeOff /\ ManifestOff
    /\ spc = "input" /\ permsP \in ScoreInputs /\ permsQ \in ScoreInputs
    /\ scoreP = 0 /\ scoreQ = 0

CalculatePermissionScore ==
    /\ spc = "input"
    /\ scoreP' = calculate_permission_score(permsP)
    /\ scoreQ' = calculate_permission_score(permsQ)
    /\ spc' = "scored"
    /\ UNCHANGED << permsP, permsQ, analysisVars, decodeVars, manifestVars >>

SpecScore == InitScore /\ [][CalculatePermissionScore]_vars

(***************************************************************************)
(* SpecManifest: _analyze_crx applied to an archive whose manifest.json is *)
(* a JSON object with permissions, optional_permissions, content_scripts.  *)
(***************************************************************************)
PermissionLists == UNION { [1..n -> PermissionNames] : n \in 0..MaxPerms }

OptionalPermissionLists == { << >>, << "tabs" >>, << "history" >>, << "fooBar" >> }

ContentScriptLists ==
    { << >>,
      << [matches |-> << "https://api.example.com/*" >>] >>,
      << [matches |-> << "https://API.example.com/*", "https://api.example.com/x" >>] >>,
      << [matches |-> << "*://*/*" >>] >> }

Manifests ==
    [permissions : PermissionLists, optional_permissions : OptionalPermissionLists,
     content_scripts : ContentScriptLists]
    \cup [optional_permissions : OptionalPermissionLists]
    \cup [permissions : PermissionLists]

\* an archive whose manifest.json is the UTF-8 text of the JSON object
ArchiveOf(manifest_json) ==
    [namelist |-> << "manifest.json" >>,
     manifest |-> ManifestFile("utf-8", TRUE, TRUE, manifest_json)]

InitManifest ==
    /\ InitAnalysis /\ DecodeOff /\ ScoreOff
    /\ mpc = "input" /\ manifest_in \in Manifests /\ manifest_out = None

AnalyzeManifest ==
    /\ mpc = "input"
    /\ manifest_out' = analyze_crx_except(analyze_archive(ArchiveOf(manifest_in)))
    /\ mpc' = "analyzed"
    /\ UNCHANGED << manifest_in, analysisVars, decodeVars, scoreVars >>

SpecManifest == InitManifest /\ [][AnalyzeManifest]_vars

(***************************************************************************)
(* Properties of the analysis workflow (Spec).                             *)
(***************************************************************************)
Rows(k) == select_rows(extensions, k.extension_id, k.store_name)
Accepted(p) == pc[p] \notin {"idle", "rejected"}
LookedUp(p) == pc[p] \notin {"idle", "rejected", "lookup"}
Done(p) == pc[p] = "done"
PutsFor(k) == { x.result : x \in { y \in puts : y.key = k } }

\* the run of p failed in fetch_store_details, in _download_crx (request or
\* header decoding) or in _analyze_crx (archive open, manifest read, decode, parse)
FetchFailed(p) == Done(p) /\ "fetch" \in work[p] /\ "download" \notin work[p]
DownloadFailed(p) == Done(p) /\ "download" \in work[p] /\ "analyze" \notin work[p]
AnalysisFailed(p) == "analyze" \in work[p] /\ analyze_crx_try(zip_seen[p]).raised
PipelineStepFailed(p) == FetchFailed(p) \/ DownloadFailed(p) \/ AnalysisFailed(p)

\* C1: a run in which a pipeline step fails never executes _cache_results, and
\* the table holds nothing but what the committed puts of the other runs wrote:
\* for every key the rows are exactly the row of the last committed put.
C1_NoPartialResultCached ==
    /\ \A p \in Calls :
          Accepted(p) /\ PipelineStepFailed(p) =>
              /\ "put" \notin work[p]
              /\ \A x \in puts : x.by # p
              /\ pc[p] \notin {"summary", "cache", "cleanup", "remove"}
    /\ \A k \in Keys :
          Rows(k) = IF last_put[k] = None THEN {}
                    ELSE { cache_row(k.extension_id, k.store_name, last_put[k]) }

\* C1 witness: a run failed in _analyze_crx while the row of its key, written by
\* another run, is in the table.
C1_Witness ==
    \E p \in Calls :
        /\ Done(p) /\ AnalysisFailed(p) /\ ret[p].via = "http_error"
        /\ Rows(KeyOf(p)) # {}

\* C2: a call whose lookup found a row for its key returned the result stored in
\* that row at once: it has fetched, downloaded, analysed, summarized and
\* written nothing.
C2_CacheHitDoesNoWork ==
    \A p \in Calls :
        LookedUp(p) /\ looked[p].rows # {} =>
            /\ Done(p)
            /\ ret[p].via = "cached"
            /\ \E row \in looked[p].rows : ret[p].body = json_loads(row.result_blob)
            /\ ret[p].body \in PutsFor(KeyOf(p))
            /\ work[p] = {}
            /\ zip_fd[p] = "closed" /\ zip_info[p] = None /\ result[p] = None

\* C2 witness: a call has returned the cached result of an earlier call.
C2_Witness ==
    \E p \in Calls :
        Done(p) /\ ret[p].via = "cached" /\ looked[p].rows # {} /\ work[p] = {}

\* C3 as stated: for each key at most one call completes the pipeline.
C3_AtMostOneComputationPerPair ==
    \A k \in Keys :
        Cardinality({ p \in Calls : Accepted(p) /\ KeyOf(p) = k /\ "put" \in work[p] }) <= 1

\* C3 amended: the pipeline runs only in a call whose lookup preceded every
\* committed put of its key, and a call whose lookup followed a committed put
\* returns the result of the last such put and computes nothing.
C3_ComputationOnlyOnMiss ==
    \A p \in Calls :
        LookedUp(p) =>
            /\ work[p] # {} => looked[p].put = None
            /\ pc[p] \notin {"done"} => looked[p].put = None
            /\ looked[p].put # None =>
                  /\ ret[p].via = "cached"
                  /\ ret[p].body = looked[p].put
                  /\ work[p] = {}
            /\ Done(p) /\ ret[p].via = "cached" => looked[p].put # None

\* C3 witness: two calls for one key have both completed the pipeline, each
\* having looked up before the other's put.
C3_Witness ==
    \E p, q \in Calls :
        /\ p # q /\ Accepted(p) /\ Accepted(q) /\ KeyOf(p) = KeyOf(q)
        /\ "put" \in work[p] /\ "put" \in work[q]
        /\ looked[p].put = None /\ looked[q].put = None

\* C4: in every state a get of a key observes no record when no put for the key
\* has committed, and otherwise exactly the result of the last committed put:
\* one complete result, written by a single put.
C4_LastWriterWinsWholeRecord ==
    \A k \in Keys :
        LET got == get_cached_analysis(extensions, k)
        IN  /\ last_put[k] = None => got = {}
            /\ last_put[k] # None =>
                  /\ got = { last_put[k] }
                  /\ \A r \in got : r \in PutsFor(k) /\ DOMAIN r = DOMAIN last_put[k]

\* C4 witness: two concurrent analyses of one key have committed different
\* results, the second while the first had not yet returned.
C4_Witness ==
    \E p, q \in Calls :
        /\ p # q /\ Accepted(p) /\ Accepted(q) /\ KeyOf(p) = KeyOf(q)
        /\ pc[p] = "cleanup" /\ pc[q] = "cleanup"
        /\ result[p] # result[q]
        /\ get_cached_analysis(extensions, KeyOf(p)) = { last_put[KeyOf(p)] }

\* C5: the table never holds two rows for one (id, store_name), and the row of a
\* key that has been put is still there, with the timestamp of its last put,
\* whatever has been put for the same id under the other store.
C5_OneEntryPerPair ==
    \A k \in Keys :
        /\ Cardinality(Rows(k)) <= 1
        /\ last_put[k] # None =>
              \E row \in Rows(k) : row.last_updated = last_put[k].metadata.analyzed_at

\* C5 witness: one extension id has an entry under each of the two stores.
C5_Witness ==
    \E k1, k2 \in Keys :
        /\ k1.extension_id = k2.extension_id /\ k1.store_name # k2.store_name
        /\ Rows(k1) # {} /\ Rows(k2) # {}

\* C6: right after _cache_results commits a result for a key, a get of the key
\* returns exactly that result, whatever the table held for the key before.
C6_PutThenGet ==
    [][ \A p \in Calls :
           pc[p] = "cache" /\ pc'[p] = "cleanup" =>
               get_cached_analysis(extensions', KeyOf(p)) = { result[p] } ]_vars

\* C6 witness: a key has been put twice, with two results that differ in their
\* summary, and a get returns the second.
C6_Witness ==
    \E k \in Keys : \E r1, r2 \in PutsFor(k) :
        /\ r1.summary # r2.summary
        /\ r1.metadata.analyzed_at < r2.metadata.analyzed_at
        /\ get_cached_analysis(extensions, k) = { r2 }

\* C8 as stated: a run that analysed an archive without manifest.json returns
\* the manifest-missing error, not the error of another failure, and writes no
\* cache entry.
ManifestMissing(p) ==
    /\ "analyze" \in work[p] /\ zip_seen[p].exists
    /\ ~ZipFile(zip_seen[p].content).raised
    /\ ~InList("manifest.json", ZipFile(zip_seen[p].content).value.namelist)

C8_ManifestMissingReachesCaller ==
    \A p \in Calls :
        Done(p) /\ ManifestMissing(p) =>
            /\ ret[p].body.summary =
                  ErrorSummary(HTTPException(404, "manifest.json not found in extension"))
            /\ "put" \notin work[p]

(***************************************************************************)
(* Properties of _process_crx_headers (SpecDecode).                        *)
(***************************************************************************)
\* the archive offset the function computes for a buffer
ComputedOffset(data) ==
    IF StartsWith(data, Cr24)
    THEN 12 + IntFromBytesLittle(Slice(data, 8, 12)) + 32
    ELSE 16

\* C7 as stated: decoding a buffer shorter than its computed archive offset
\* fails; it returns no byte string.
C7_TruncatedBufferFails ==
    dpc = "decoded" /\ Len(crx_data) < ComputedOffset(crx_data) => decoded.raised

(***************************************************************************)
(* Properties of _calculate_permission_score (SpecScore).                  *)
(***************************************************************************)
Elements(list) == { list[i] : i \in 1..Len(list) }
\* the list holds no entry twice: it lists a set
ListsASet(list) == \A i, j \in 1..Len(list) : i # j => list[i] # list[j]

\* C9 as stated: the score of every permission list lies between 0 and the
\* ceiling the frontend displays, 5.0.
C9_ScoreWithinCeiling ==
    spc = "scored" => 0 <= scoreP /\ scoreP <= ScoreCeilingHalves

\* C10: for permission sets P and Q, each listed without repetition in any
\* order, P a subset of Q implies score(P) <= score(Q); the empty set scores 0;
\* {storage, tabs, webRequest} scores strictly more than {storage}.
C10_ScoreMonotonic ==
    spc = "scored" =>
        /\ (ListsASet(permsP) /\ ListsASet(permsQ)
               /\ Elements(permsP) \subseteq Elements(permsQ))
           => scoreP <= scoreQ
        /\ (permsP = << >>) => (scoreP = 0)
        /\ (ListsASet(permsP) /\ Elements(permsP) = { "storage" }
               /\ ListsASet(permsQ)
               /\ Elements(permsQ) = { "storage", "tabs", "webRequest" })
           => scoreP < scoreQ

\* C10 witness: [storage] has been scored 0.5 and [storage, tabs, webRequest]
\* 1.5.
C10_Witness ==
    /\ spc = "scored"
    /\ permsP = << "storage" >> /\ permsQ = << "storage", "tabs", "webRequest" >>
    /\ scoreP = 1 /\ scoreQ = 3

(***************************************************************************)
(* Properties of _analyze_crx on manifests (SpecManifest).                 *)
(***************************************************************************)
\* the analysis of the manifest has ended and returned its dict
Analyzed == mpc = "analyzed" /\ ~manifest_out.raised

DeclaredPermissions == DictGet(manifest_in, "permissions", << >>)
DeclaredOptional == DictGet(manifest_in, "optional_permissions", << >>)

\* the number of high-risk names in a set of permission names
RiskyIn(names) == Cardinality(names \cap Elements(risky_permissions))

C12_HostOfMatchPattern ==
    /\ Analyzed
    /\ DictGet(manifest_in, "content_scripts", << >>)
           = << [matches |-> << "https://api.example.com/*" >>] >>
    => manifest_out.value.third_party_dependencies = << "api.example.com" >>

(***************************************************************************)
(* Properties of _process_crx_headers, continued (SpecDecode).             *)
(***************************************************************************)
\* res is the suffix data[off:] of a buffer of at least off bytes
SuffixAt(res, data, off) ==
    /\ Len(res) = Len(data) - off
    /\ \A i \in 1..Len(res) : res[i] = data[off + i]

\* the little-endian 32-bit value at bytes 8..11 of a buffer of 12 or more
HeaderLengthField(data) ==
    data[9] + 256 * data[10] + 65536 * data[11] + 16777216 * data[12]

\* C15: for a buffer with the magic that is at least 12 + h + 32 bytes long
\* the result is raw[12 + h + 32:], for a buffer of at least 16 bytes without
\* the magic it is raw[16:]; nothing but the result is changed.
C15_SuffixAtComputedOffset ==
    dpc = "decoded" =>
        /\ (/\ StartsWith(crx_data, Cr24) /\ Len(crx_data) >= 12
            /\ Len(crx_data) >= 12 + HeaderLengthField(crx_data) + 32)
               => (/\ ~decoded.raised
                   /\ SuffixAt(decoded.value, crx_data,
                               12 + HeaderLengthField(crx_data) + 32))
        /\ (~StartsWith(crx_data, Cr24) /\ Len(crx_data) >= 16)
               => (~decoded.raised /\ SuffixAt(decoded.value, crx_data, 16))
        /\ InitAnalysis /\ ScoreOff /\ ManifestOff

\* C15 witness: the container with the magic and a one-byte header has been
\* decoded to its archive, the bytes from offset 45 on.
C15_Witness ==
    /\ dpc = "decoded"
    /\ crx_data = Crx3Container(1, ZipBytes(1))
    /\ ~decoded.raised /\ decoded.value = ZipBytes(1)

\* C16 as stated: a buffer without the magic that is shorter than the
\* 16-byte prefix, or that begins as a bare archive, is unrecognized:
\* decoding it fails and returns no byte string.
C16_UnrecognizedFails ==
    /\ dpc = "decoded"
    /\ ~StartsWith(crx_data, Cr24)
    /\ Len(crx_data) < 16 \/ StartsWith(crx_data, PK)
    => decoded.raised

(***************************************************************************)
(* Properties of the analysis workflow, continued (Spec).                  *)
(***************************************************************************)
\* C13 as stated: a call whose fetch, download, decoding and manifest
\* analysis (of the bytes it downloaded) succeeded, so that it reached the
\* summary, has at its end written its result to the cache and returned that
\* result, whether the summary is the service's text or the failure text.
C13_SummarizerIndependence ==
    \A p \in Calls :
        Done(p) /\ "summary" \in work[p] /\ zip_seen[p] = File(zip_data[p])
            => /\ "put" \in work[p]
               /\ ret[p].via = "computed"
               /\ ret[p].body = result[p]

\* C14 as stated: the archive a call analyses is the file holding exactly the
\* bytes that call downloaded and decoded; no other call has overwritten or
\* deleted it.
C14_AnalysisReadsOwnBytes ==
    \A p \in Calls :
        "analyze" \in work[p] => zip_seen[p] = File(zip_data[p])

=============================================================================
